---- MODULE Spec2Model ----
(***************************************************************************)
(* Model of the square_reed_solomon crate: RsLine (rs_line.rs), RsSquare   *)
(* (rs_square.rs) and RsSquareProver (prover.rs).                          *)
(*                                                                         *)
(* The crate is generic over F: PrimeField.  The model instantiates F with *)
(* the prime field of order 17, whose multiplicative group has order 2^4,  *)
(* so that radix-2 evaluation domains of order 1, 2, 4, 8 and 16 exist and *)
(* a domain of order 32 does not.  All indices are 0-based as in the code; *)
(* a Vec is a sequence and element i of the Vec is element i+1 of the      *)
(* sequence.                                                               *)
(***************************************************************************)
EXTENDS Integers, Sequences, FiniteSets, TLC

VARIABLES
    pc,          \* position of the running constructor / driver
    shares,      \* input: Vec<Vec<F>> given to RsSquareProver::new
    scale,       \* input: scale factor
    square,      \* the RsSquare under construction / extension
    idx,         \* loop variable of the current pass of RsSquare::extend
    prover,      \* the constructed RsSquareProver (fields of the struct)
    log,         \* history: the extend_row / extend_col calls made, in order
    returned,    \* history: the values each root query has returned so far
    lines,       \* the results of the RsLine::new calls of the constructor
    line,        \* the RsLine of the line specification
    sharesB,     \* the second input grid of the pair specification
    proverB      \* the second prover of the pair specification

vars == <<pc, shares, scale, square, idx, prover, log, returned,
          lines, line, sharesB, proverB>>

----------------------------------------------------------------------------
(* Bounds of the model *)

MaxVal == 1        \* shares enumerated exhaustively are drawn from 0..MaxVal
MaxRows == 8       \* at most MaxRows rows / shares per row
MaxScale == 4      \* scale factors are drawn from 0..MaxScale
MaxBeta == 2       \* KZG trapdoors are drawn from 1..MaxBeta

----------------------------------------------------------------------------
(* The field F: PrimeField *)

P == 17                         \* field modulus
TWO_ADICITY == 4                \* P - 1 = 2^4
TWO_ADIC_ROOT_OF_UNITY == 3     \* element of multiplicative order 2^4

None == [none |-> TRUE]

FAdd(a, b) == (a + b) % P
FMul(a, b) == (a * b) % P

RECURSIVE FPow(_, _)
\* b^e by repeated squaring
FPow(b, e) ==
    IF e = 0 THEN 1
    ELSE LET h == FPow(b, e \div 2) IN
         IF e % 2 = 0 THEN FMul(h, h) ELSE FMul(b, FMul(h, h))

FInv(a) == FPow(a, P - 2)

RECURSIVE Pow2(_)
Pow2(k) == IF k = 0 THEN 1 ELSE 2 * Pow2(k - 1)

\* x & y on usize
RECURSIVE BitAnd(_, _)
BitAnd(x, y) ==
    IF x = 0 \/ y = 0 THEN 0
    ELSE (x % 2) * (y % 2) + 2 * BitAnd(x \div 2, y \div 2)

is_power_of_two(x) ==
    IF x = 0 THEN FALSE
    ELSE IF BitAnd(x, x - 1) = 0 THEN TRUE
    ELSE FALSE

----------------------------------------------------------------------------
(* Radix2EvaluationDomain, Evaluations::interpolate, Polynomial::evaluate  *)

RECURSIVE CeilLog2(_)
CeilLog2(n) == IF n <= 1 THEN 0 ELSE 1 + CeilLog2((n + 1) \div 2)

\* Radix2EvaluationDomain::<F>::new(n): None when the field has no subgroup
\* of order next_power_of_two(n)
DomainNew(n) ==
    LET lg == CeilLog2(n) IN
    IF lg > TWO_ADICITY THEN None
    ELSE [size |-> Pow2(lg),
          log_size_of_group |-> lg,
          group_gen |-> FPow(TWO_ADIC_ROOT_OF_UNITY, Pow2(TWO_ADICITY - lg))]

RECURSIVE FSum(_, _)
\* sum over i in 0..k-1 of f[i]
FSum(f, k) == IF k = 0 THEN 0 ELSE FAdd(FSum(f, k - 1), f[k - 1])

RECURSIVE StripZeros(_)
\* DensePolynomial::from_coefficients_vec drops the trailing zero coefficients
StripZeros(c) ==
    IF c = <<>> THEN c
    ELSE IF c[Len(c)] = 0 THEN StripZeros(SubSeq(c, 1, Len(c) - 1))
    ELSE c

\* Evaluations::from_vec_and_domain(evals, domain).interpolate(): the inverse
\* DFT of evals (resized to the domain) over the domain, as a coefficient Vec
Interpolate(evals, domain) ==
    LET n == domain.size
        e == [i \in 0..(n - 1) |-> IF i < Len(evals) THEN evals[i + 1] ELSE 0]
        winv == FInv(domain.group_gen)
        ninv == FInv(n % P)
        coeff(j) == FMul(ninv,
                        FSum([i \in 0..(n - 1) |->
                                 FMul(e[i], FPow(winv, (i * j) % n))], n))
    IN StripZeros([j \in 1..n |-> coeff(j - 1)])

RECURSIVE Horner(_, _, _)
\* the value at x of the polynomial with the coefficients poly[k..]
Horner(poly, x, k) ==
    IF k > Len(poly) THEN 0
    ELSE FAdd(poly[k], FMul(x, Horner(poly, x, k + 1)))

\* poly.evaluate(&x), Horner's rule on the coefficient Vec
Evaluate(poly, x) == Horner(poly, x, 1)

----------------------------------------------------------------------------
(* RsLine *)

Panic(msg) == [panic |-> msg]
IsPanic(v) == "panic" \in DOMAIN v

\* mutant of RsLineNew: the shares are stored side by side, not at the stride
RsLineNew_packed(line_shares, line_scale) ==
    IF ~is_power_of_two(Len(line_shares))
    THEN Panic("Number of Shares in Reed Solomon Line must be power of 2")
    ELSE IF ~is_power_of_two(line_scale)
    THEN Panic("Scale factor of Reed Solomon Line must be power of 2")
    ELSE [vals |-> [i \in 1..(Len(line_shares) * line_scale) |->
                       IF i <= Len(line_shares) THEN line_shares[i] ELSE 0],
          scale |-> line_scale]

\* RsLine::new
RsLineNew(line_shares, line_scale) ==
    IF ~is_power_of_two(Len(line_shares))
    THEN Panic("Number of Shares in Reed Solomon Line must be power of 2")
    ELSE IF ~is_power_of_two(line_scale)
    THEN Panic("Scale factor of Reed Solomon Line must be power of 2")
    ELSE LET n_shares == Len(line_shares) IN
         [vals |-> [i \in 1..(n_shares * line_scale) |->
                       IF (i - 1) % line_scale = 0
                       THEN line_shares[((i - 1) \div line_scale) + 1]
                       ELSE 0],
          scale |-> line_scale]

\* RsLine::length
length(l) == Len(l.vals)

\* RsLine::get_element_at
get_element_at(l, i) == l.vals[i + 1]

\* RsLine::set_element_at
set_element_at(l, i, val) == [l EXCEPT !.vals[i + 1] = val]

\* mutant of compressed_vals: the first values instead of the strided ones
compressed_vals_unstrided(l) ==
    [i \in 1..(Len(l.vals) \div l.scale) |-> l.vals[i]]

\* RsLine::compressed_vals
compressed_vals(l) ==
    [i \in 1..(Len(l.vals) \div l.scale) |-> l.vals[(i - 1) * l.scale + 1]]

\* mutant of RsLineExtend: evaluates over the small domain's generator
RsLineExtend_small_omega(l, small_domain, large_domain) ==
    LET large_order == Pow2(large_domain.log_size_of_group)
        poly == Interpolate(compressed_vals(l), small_domain)
    IN [l EXCEPT !.vals = [i \in 1..large_order |->
                              Evaluate(poly, FPow(small_domain.group_gen, i - 1))]]

\* RsLine::extend
RsLineExtend(l, small_domain, large_domain) ==
    LET large_order == Pow2(large_domain.log_size_of_group)
        poly == Interpolate(compressed_vals(l), small_domain)
        large_omega == large_domain.group_gen
    IN [l EXCEPT !.vals = [i \in 1..large_order |->
                              Evaluate(poly, FPow(large_omega, i - 1))]]

----------------------------------------------------------------------------
(* RsSquare *)

RECURSIVE FirstBadRow(_, _, _)
\* first data row, in the order RsSquare::new visits them, whose length is
\* not `len`; 0 when every data row has that length
FirstBadRow(data_rows, len, k) ==
    IF k > Len(data_rows) THEN 0
    ELSE IF length(data_rows[k]) # len THEN k
    ELSE FirstBadRow(data_rows, len, k + 1)

\* mutant of RsSquareNew: the lengths of the data rows are not compared
RsSquareNew_unchecked(data_rows, sq_scale) ==
    LET n_rows == Len(data_rows)
        len == n_rows * sq_scale
    IN  IF ~is_power_of_two(n_rows)
        THEN Panic("Number of rows must be power of 2")
        ELSE IF ~is_power_of_two(sq_scale)
        THEN Panic("Scale factor must be power of 2")
        ELSE IF DomainNew(len) = None
        THEN Panic("Domain does not have roots of unity of order")
        ELSE [n_rows |-> n_rows,
              scale |-> sq_scale,
              length |-> len,
              rows |-> [i \in 1..len |->
                           IF (i - 1) % sq_scale = 0
                           THEN data_rows[((i - 1) \div sq_scale) + 1]
                           ELSE RsLineNew([k \in 1..n_rows |-> 0], sq_scale)],
              small_domain |-> DomainNew(n_rows),
              large_domain |-> DomainNew(len)]

\* RsSquare::new
RsSquareNew(data_rows, sq_scale) ==
    LET n_rows == Len(data_rows)
        len == n_rows * sq_scale
        large_domain == DomainNew(len)
        small_domain == DomainNew(n_rows)
        zero_vec == [i \in 1..n_rows |-> 0]
    IN  IF ~is_power_of_two(n_rows)
        THEN Panic("Number of rows must be power of 2")
        ELSE IF ~is_power_of_two(sq_scale)
        THEN Panic("Scale factor must be power of 2")
        ELSE IF large_domain = None
        THEN Panic("Domain does not have roots of unity of order")
        ELSE IF FirstBadRow(data_rows, len, 1) # 0
        THEN Panic("Data rows do not form a square")
        ELSE [n_rows |-> n_rows,
              scale |-> sq_scale,
              length |-> len,
              rows |-> [i \in 1..len |->
                           IF (i - 1) % sq_scale = 0
                           THEN data_rows[((i - 1) \div sq_scale) + 1]
                           ELSE RsLineNew(zero_vec, sq_scale)],
              small_domain |-> small_domain,
              large_domain |-> large_domain]

\* mutant of set_col: reads the line at the column index
set_col_mixed(sq, cid, l) ==
    [sq EXCEPT !.rows = [r \in 1..Len(sq.rows) |->
        IF r <= sq.length
        THEN [sq.rows[r] EXCEPT !.vals[cid + 1] = l.vals[cid + 1]]
        ELSE sq.rows[r]]]

\* RsSquare::set_col
set_col(sq, cid, l) ==
    [sq EXCEPT !.rows = [r \in 1..Len(sq.rows) |->
        IF r <= sq.length
        THEN set_element_at(sq.rows[r], cid, get_element_at(l, r - 1))
        ELSE sq.rows[r]]]

\* RsSquare::val_at
val_at(sq, rid, cid) == get_element_at(sq.rows[rid + 1], cid)

\* RsSquare::extend_row
extend_row(sq, rid) ==
    [sq EXCEPT !.rows[rid + 1] =
        RsLineExtend(sq.rows[rid + 1], sq.small_domain, sq.large_domain)]

\* the column that extend_col and col_poly build: the entries of column cid
\* in the real rows
RealColumn(sq, cid) ==
    [r \in 1..sq.n_rows |-> get_element_at(sq.rows[(r - 1) * sq.scale + 1], cid)]

\* RsSquare::row_poly
row_poly(sq, rid) == Interpolate(compressed_vals(sq.rows[rid + 1]), sq.small_domain)

\* RsSquare::col_poly
col_poly(sq, cid) == Interpolate(RealColumn(sq, cid), sq.small_domain)

\* mutant of extend_col: builds the column from rows 0..n_rows, not from
\* the real rows
extend_col_unstrided(sq, cid) ==
    LET col == [r \in 1..sq.n_rows |-> sq.rows[r].vals[cid + 1]]
        rs_line == [vals |-> [i \in 1..sq.length |->
                        Evaluate(Interpolate(col, sq.small_domain),
                                 FPow(sq.large_domain.group_gen, i - 1))],
                    scale |-> sq.scale]
    IN [sq EXCEPT !.rows = [r \in 1..Len(sq.rows) |->
           [sq.rows[r] EXCEPT !.vals[cid + 1] = rs_line.vals[r]]]]

\* RsSquare::extend_col
extend_col(sq, cid) ==
    LET col == RealColumn(sq, cid)
        rs_line == RsLineExtend(RsLineNew(col, sq.scale),
                                sq.small_domain, sq.large_domain)
    IN set_col(sq, cid, rs_line)

RECURSIVE ExtendPass1(_, _)
\* first loop of RsSquare::extend, iterations 0..k-1
ExtendPass1(sq, k) ==
    IF k = 0 THEN sq
    ELSE extend_row(ExtendPass1(sq, k - 1), (k - 1) * sq.scale)

RECURSIVE ExtendPass2(_, _)
\* second loop of RsSquare::extend, iterations 0..k-1
ExtendPass2(sq, k) ==
    IF k = 0 THEN sq
    ELSE extend_col(ExtendPass2(sq, k - 1), k - 1)

RECURSIVE ExtendPass3(_, _)
\* third loop of RsSquare::extend, iterations 0..k-1
ExtendPass3(sq, k) ==
    IF k = 0 THEN sq
    ELSE IF (k - 1) % sq.scale = 0 THEN ExtendPass3(sq, k - 1)
    ELSE extend_row(ExtendPass3(sq, k - 1), k - 1)

\* RsSquare::extend, run to completion
extend(sq) ==
    ExtendPass3(ExtendPass2(ExtendPass1(sq, sq.n_rows), sq.length), sq.length)

----------------------------------------------------------------------------
(* RsSquareProver.  A G1 element g^k is represented by its exponent k, so   *)
(* the group has the order of the field, as the pairing groups have.  A     *)
(* hash is the term built from its input.                                   *)

\* the trapdoors KZG10::setup may draw from the rng
Betas == 1..MaxBeta

\* KZG10::setup(max_degree, false, rng): powers_of_g[i] = g^(beta^i) for
\* i in 0..=max_degree; fails on max_degree < 1
KzgSetup(max_degree, beta) ==
    IF max_degree < 1 THEN Panic("KZG setup failed")
    ELSE [powers_of_g |-> [i \in 1..(max_degree + 1) |-> FPow(beta, i - 1)]]

\* RsSquareProver::commit_to_poly: KZG10::commit on powers_of_g[..=max_degree]
commit_to_poly(pr, poly) ==
    IF pr.max_degree + 1 > Len(pr.params.powers_of_g)
    THEN Panic("range end index out of range")
    ELSE IF Len(poly) > pr.max_degree + 1
    THEN Panic("KZG commitment failed")
    ELSE [g1 |-> FSum([i \in 0..(Len(poly) - 1) |->
                          FMul(poly[i + 1], pr.params.powers_of_g[i + 1])],
                      Len(poly))]

\* RsSquareProver::commit_to_row
commit_to_row(pr, rid) == commit_to_poly(pr, row_poly(pr.square, rid))

\* RsSquareProver::commit_to_col
commit_to_col(pr, cid) == commit_to_poly(pr, col_poly(pr.square, cid))

\* H::hash
Hash(bytes) == [hash |-> bytes]

\* RsSquareProver::hash_commitment
hash_commitment(pr, com) == Hash(<<"G1", com.g1>>)

RECURSIVE MerkleRoot(_)
\* MerkleTree::<H>::from_leaves(leaves).root(): sibling hashes are hashed in
\* pairs, a node without a sibling moves up as it is; no root without leaves
MerkleRoot(leaves) ==
    IF Len(leaves) = 0 THEN None
    ELSE IF Len(leaves) = 1 THEN leaves[1]
    ELSE MerkleRoot([i \in 1..((Len(leaves) + 1) \div 2) |->
            IF 2 * i <= Len(leaves)
            THEN Hash(<<leaves[2 * i - 1], leaves[2 * i]>>)
            ELSE leaves[2 * i - 1]])

\* the leaves RsSquareProver::row_root collects
row_leaves(pr) ==
    [i \in 1..pr.max_degree |-> hash_commitment(pr, commit_to_row(pr, i - 1))]

\* the leaves RsSquareProver::col_root collects
col_leaves(pr) ==
    [i \in 1..pr.max_degree |-> hash_commitment(pr, commit_to_col(pr, i - 1))]

\* RsSquareProver::row_root
row_root(pr) == MerkleRoot(row_leaves(pr))

\* RsSquareProver::col_root
col_root(pr) == MerkleRoot(col_leaves(pr))

\* RsSquareProver::root
root(pr) == MerkleRoot(<<row_root(pr), col_root(pr)>>)

\* mutant of MaxDegree: the number of rows of shares, without the scale
MaxDegree_unscaled(pr_shares, pr_scale) == Len(pr_shares)

\* max_degree as RsSquareProver::new derives it
MaxDegree(pr_shares, pr_scale) == Len(pr_shares) * pr_scale

\* the lines RsSquareProver::new builds from the shares
ProverLines(pr_shares, pr_scale) ==
    [i \in 1..Len(pr_shares) |-> RsLineNew(pr_shares[i], pr_scale)]

\* the first panic among the results rs, or None
FirstPanic(rs) ==
    IF \E i \in 1..Len(rs) : IsPanic(rs[i])
    THEN rs[CHOOSE i \in 1..Len(rs) :
                /\ IsPanic(rs[i])
                /\ \A j \in 1..(i - 1) : ~IsPanic(rs[j])]
    ELSE None

\* RsSquareProver::new, run to completion with the trapdoor beta drawn by
\* the rng: the prover, or the panic that ends the constructor
ProverNew(pr_shares, pr_scale, beta) ==
    LET data_rows == ProverLines(pr_shares, pr_scale) IN
    IF FirstPanic(data_rows) # None THEN FirstPanic(data_rows)
    ELSE LET sq == RsSquareNew(data_rows, pr_scale) IN
         IF IsPanic(sq) THEN sq
         ELSE LET ext == extend(sq)
                  max_degree == MaxDegree(pr_shares, pr_scale)
                  params == KzgSetup(max_degree, beta)
              IN IF IsPanic(params) THEN params
                 ELSE [shares |-> pr_shares,
                       scale |-> pr_scale,
                       square |-> ext,
                       max_degree |-> max_degree,
                       params |-> params]

----------------------------------------------------------------------------
(* Inputs *)

MaxExhaustive == 2   \* grids of side <= MaxExhaustive are enumerated in full

Sides == {n \in 1..MaxRows : is_power_of_two(n)}
Scales == {s \in 1..MaxScale : is_power_of_two(s)}

\* larger grids: multiples of the grid 0, 1, 2, ... of the crate's tests,
\* with one share moved
FamilyGrids(n) ==
    {[r \in 1..n |-> [c \in 1..n |->
        (k * (n * (r - 1) + (c - 1))
           + (IF <<r, c>> = cell THEN e ELSE 0)) % P]] :
     k \in 1..(MaxVal + 1), e \in 0..MaxVal, cell \in {<<1, 1>>, <<2, 3>>}}

Grids(n) ==
    IF n <= MaxExhaustive THEN [1..n -> [1..n -> 0..MaxVal]]
    ELSE FamilyGrids(n)

\* inputs that are no n x n grid: rows of one length, or all but the first
\* or the last row of one length
RaggedInputs ==
    UNION {{[r \in 1..nr |-> [c \in 1..(IF r = odd THEN m2 ELSE m) |->
                (MaxRows * (r - 1) + (c - 1)) % P]] :
            m \in 0..MaxRows, m2 \in 0..MaxRows, odd \in {0, 1, nr}} :
           nr \in 0..MaxRows}

Inputs == UNION {Grids(n) : n \in Sides} \cup RaggedInputs

IsGrid(g) ==
    /\ is_power_of_two(Len(g))
    /\ \A r \in 1..Len(g) : Len(g[r]) = Len(g)

NoReturns == [row |-> {}, col |-> {}, root |-> {}]

----------------------------------------------------------------------------
(* Specification Spec: RsSquareProver::new(shares, scale) on an n x n grid, *)
(* with RsSquare::extend run one extend_row / extend_col call at a time,    *)
(* followed by the root queries on the constructed prover.                  *)

Init ==
    /\ pc = "new"
    /\ shares \in Inputs
    /\ scale \in 0..MaxScale
    /\ square = None
    /\ idx = 0
    /\ prover = None
    /\ log = <<>>
    /\ returned = NoReturns
    /\ lines = <<>>
    /\ line = None
    /\ sharesB = None
    /\ proverB = None

Unused == UNCHANGED <<line, sharesB, proverB>>

\* the results of the RsLine::new calls made: the map stops at the first
\* panic
CalledLines(rs) ==
    IF FirstPanic(rs) = None THEN rs
    ELSE SubSeq(rs, 1, CHOOSE i \in 1..Len(rs) :
                          /\ IsPanic(rs[i])
                          /\ \A j \in 1..(i - 1) : ~IsPanic(rs[j]))

\* prover.rs 29-33: the lines, then RsSquare::new
NewSquare ==
    /\ pc = "new"
    /\ LET data_rows == ProverLines(shares, scale)
           sq == IF FirstPanic(data_rows) # None THEN FirstPanic(data_rows)
                 ELSE RsSquareNew(data_rows, scale)
       IN /\ lines' = CalledLines(data_rows)
          /\ square' = sq
          /\ pc' = IF IsPanic(sq) THEN "panic" ELSE "pass1"
    /\ idx' = 0
    /\ UNCHANGED <<shares, scale, prover, log, returned>>
    /\ Unused

\* one iteration of the first loop of RsSquare::extend
Pass1Step ==
    /\ pc = "pass1"
    /\ idx < square.n_rows
    /\ square' = extend_row(square, idx * square.scale)
    /\ log' = Append(log, [op |-> "row", id |-> idx * square.scale, pass |-> 1])
    /\ IF idx + 1 < square.n_rows
       THEN idx' = idx + 1 /\ pc' = pc
       ELSE idx' = 0 /\ pc' = "pass2"
    /\ UNCHANGED <<lines, shares, scale, prover, returned>>
    /\ Unused

\* one iteration of the second loop of RsSquare::extend
Pass2Step ==
    /\ pc = "pass2"
    /\ idx < square.length
    /\ square' = extend_col(square, idx)
    /\ log' = Append(log, [op |-> "col", id |-> idx, pass |-> 2])
    /\ IF idx + 1 < square.length
       THEN idx' = idx + 1 /\ pc' = pc
       ELSE idx' = 0 /\ pc' = "pass3"
    /\ UNCHANGED <<lines, shares, scale, prover, returned>>
    /\ Unused

\* mutant of Pass3Skip: no `continue`, the real row is extended again
Pass3Skip_extends ==
    /\ pc = "pass3"
    /\ idx < square.length
    /\ idx % square.scale = 0
    /\ square' = [square EXCEPT !.rows[idx + 1] =
                     RsLineExtend(square.rows[idx + 1], square.small_domain,
                                  square.large_domain)]
    /\ log' = Append(log, [op |-> "row", id |-> idx, pass |-> 3])
    /\ IF idx + 1 < square.length
       THEN idx' = idx + 1 /\ pc' = pc
       ELSE idx' = 0 /\ pc' = "setup"
    /\ UNCHANGED <<lines, shares, scale, prover, returned>>
    /\ UNCHANGED <<line, sharesB, proverB>>

\* one iteration of the third loop of RsSquare::extend: `continue` on a
\* real row
Pass3Skip ==
    /\ pc = "pass3"
    /\ idx < square.length
    /\ idx % square.scale = 0
    /\ IF idx + 1 < square.length
       THEN idx' = idx + 1 /\ pc' = pc
       ELSE idx' = 0 /\ pc' = "setup"
    /\ UNCHANGED <<lines, shares, scale, square, prover, log, returned>>
    /\ Unused

\* one iteration of the third loop of RsSquare::extend: extend_row on a
\* row that is not real
Pass3Step ==
    /\ pc = "pass3"
    /\ idx < square.length
    /\ idx % square.scale # 0
    /\ square' = extend_row(square, idx)
    /\ log' = Append(log, [op |-> "row", id |-> idx, pass |-> 3])
    /\ IF idx + 1 < square.length
       THEN idx' = idx + 1 /\ pc' = pc
       ELSE idx' = 0 /\ pc' = "setup"
    /\ UNCHANGED <<lines, shares, scale, prover, returned>>
    /\ Unused

\* prover.rs 38-55: max_degree, KZG10::setup with the OS rng, the struct
Setup ==
    /\ pc = "setup"
    /\ \E beta \in Betas :
         LET max_degree == MaxDegree(shares, scale)
             params == KzgSetup(max_degree, beta)
         IN IF IsPanic(params)
            THEN prover' = params /\ pc' = "panic"
            ELSE /\ prover' = [shares |-> shares,
                               scale |-> scale,
                               square |-> square,
                               max_degree |-> max_degree,
                               params |-> params]
                 /\ pc' = "ready"
    /\ UNCHANGED <<lines, shares, scale, square, idx, log, returned>>
    /\ Unused

\* mutant of RowRoot: the call draws commitment parameters of its own
RowRoot_fresh_params ==
    /\ pc = "ready"
    /\ \E beta \in Betas :
         returned' = [returned EXCEPT !.row = @ \cup
             {MerkleRoot([i \in 1..prover.max_degree |->
                 [hash |-> <<"G1",
                     Evaluate(Interpolate(
                         [k \in 1..prover.square.n_rows |->
                             prover.square.rows[i].vals[(k - 1) * prover.scale + 1]],
                         prover.square.small_domain), beta)>>]])}]
    /\ UNCHANGED <<lines, pc, shares, scale, square, idx, prover, log>>
    /\ UNCHANGED <<line, sharesB, proverB>>

\* a call of RsSquareProver::row_root(&self)
RowRoot ==
    /\ pc = "ready"
    /\ returned' = [returned EXCEPT !.row = @ \cup {row_root(prover)}]
    /\ UNCHANGED <<lines, pc, shares, scale, square, idx, prover, log>>
    /\ Unused

\* a call of RsSquareProver::col_root(&self)
ColRoot ==
    /\ pc = "ready"
    /\ returned' = [returned EXCEPT !.col = @ \cup {col_root(prover)}]
    /\ UNCHANGED <<lines, pc, shares, scale, square, idx, prover, log>>
    /\ Unused

\* a call of RsSquareProver::root(&self)
Root ==
    /\ pc = "ready"
    /\ returned' = [returned EXCEPT !.root = @ \cup {root(prover)}]
    /\ UNCHANGED <<lines, pc, shares, scale, square, idx, prover, log>>
    /\ Unused

Next ==
    \/ NewSquare
    \/ Pass1Step
    \/ Pass2Step
    \/ Pass3Skip
    \/ Pass3Step
    \/ Setup
    \/ RowRoot
    \/ ColRoot
    \/ Root

Spec == Init /\ [][Next]_vars

----------------------------------------------------------------------------
(* Properties of Spec *)

\* RsSquare::extend has just returned
Extended == pc = "setup"

\* the grid of the crate's tests
TestGrid == [r \in 1..4 |-> [c \in 1..4 |-> 4 * (r - 1) + (c - 1)]]

\* the cid-th power of the large-domain generator
LargePoint(sq, k) == FPow(sq.large_domain.group_gen, k)

\* C1: after RsLine::new on every row, RsSquare::new and extend(), the
\* original share G[rid][cid] is the value at (rid*scale, cid*scale), for
\* all rid, cid in 0..n.
C1_OriginalSharesSurvive ==
    Extended =>
        \A rid \in 0..(Len(shares) - 1) : \A cid \in 0..(Len(shares) - 1) :
            val_at(square, rid * scale, cid * scale) = shares[rid + 1][cid + 1]

C1_Witness ==
    /\ Extended
    /\ shares = TestGrid
    /\ scale = 4
    /\ Len(log) = 4 + 16 + 12
    /\ val_at(square, 2 * 4, 3 * 4) = 11
    /\ val_at(square, 1, 1) # 0

\* C3: after extend() every row and every column lies on a polynomial of
\* degree < n: val_at(rid, cid) is row_poly(rid) at the cid-th power of the
\* large-domain generator and col_poly(cid) at its rid-th power.
C3_RowsAndColumnsLowDegree ==
    Extended =>
        /\ \A rid \in 0..(square.length - 1) :
             LET rp == row_poly(square, rid) IN
             /\ Len(rp) <= square.n_rows
             /\ \A cid \in 0..(square.length - 1) :
                  val_at(square, rid, cid) = Evaluate(rp, LargePoint(square, cid))
        /\ \A cid \in 0..(square.length - 1) :
             LET cp == col_poly(square, cid) IN
             /\ Len(cp) <= square.n_rows
             /\ \A rid \in 0..(square.length - 1) :
                  val_at(square, rid, cid) = Evaluate(cp, LargePoint(square, rid))

C3_Witness ==
    /\ Extended
    /\ square.n_rows = 2
    /\ square.length = 8
    /\ Len(row_poly(square, 3)) = 2
    /\ Len(col_poly(square, 5)) = 2
    /\ \E rid \in 0..7 : rid % scale # 0 /\ val_at(square, rid, 3) # 0

\* C8: with scale = 1 extend() leaves the n x n grid of shares as it is;
\* with n_rows = 1 every cell of the scale x scale grid is the one share.
C8_Boundary ==
    Extended =>
        /\ scale = 1 =>
             /\ square.length = Len(shares)
             /\ Len(square.rows) = Len(shares)
             /\ \A r \in 0..(Len(shares) - 1) :
                  /\ length(square.rows[r + 1]) = Len(shares)
                  /\ \A c \in 0..(Len(shares) - 1) :
                       val_at(square, r, c) = shares[r + 1][c + 1]
        /\ Len(shares) = 1 =>
             /\ square.length = scale
             /\ Len(square.rows) = scale
             /\ \A r \in 0..(scale - 1) :
                  /\ length(square.rows[r + 1]) = scale
                  /\ \A c \in 0..(scale - 1) :
                       val_at(square, r, c) = shares[1][1]

C8_WitnessScaleOne ==
    /\ Extended
    /\ scale = 1
    /\ Len(shares) = 4
    /\ Len(log) = 8
    /\ val_at(square, 3, 2) = shares[4][3]
    /\ shares[4][3] # 0

C8_Witness ==
    /\ Extended
    /\ Len(shares) = 1
    /\ scale = 4
    /\ shares[1][1] = 1
    /\ Len(log) = 1 + 4 + 3
    /\ val_at(square, 3, 2) = 1

\* the positions in the log of the calls op on line id
LogAt(op, id) == {i \in 1..Len(log) : log[i].op = op /\ log[i].id = id}

IsReal(rid) == rid % scale = 0

\* C9: the passes of extend() are strictly ordered and cover each line
\* exactly once: real rows are row-extended (pass 1) before any column,
\* every column is extended once (pass 2) and before any row that is not
\* real, rows that are not real are row-extended once (pass 3), and every
\* row has `length` elements in every state between two calls.
C9_PassesOrdered ==
    pc \in {"pass1", "pass2", "pass3", "setup", "ready"} =>
        LET len == square.length
            Rows == 0..(len - 1)
            RealRows == {r \in Rows : IsReal(r)}
        IN
        /\ len = Len(shares) * scale
        /\ Len(square.rows) = len
        /\ \A r \in Rows : length(square.rows[r + 1]) = len
        /\ \A i \in 1..Len(log) :
             /\ log[i].id \in Rows
             /\ log[i].op = "col" => log[i].pass = 2
             /\ (log[i].op = "row" /\ IsReal(log[i].id)) => log[i].pass = 1
             /\ (log[i].op = "row" /\ ~IsReal(log[i].id)) => log[i].pass = 3
        /\ \A id \in Rows :
             /\ Cardinality(LogAt("row", id)) <= 1
             /\ Cardinality(LogAt("col", id)) <= 1
        /\ (\E i \in 1..Len(log) : log[i].op = "col") =>
             \A r \in RealRows : \E i \in LogAt("row", r) :
                 \A j \in 1..Len(log) : log[j].op = "col" => i < j
        /\ (\E i \in 1..Len(log) : log[i].op = "row" /\ ~IsReal(log[i].id)) =>
             \A c \in Rows : \E i \in LogAt("col", c) :
                 \A j \in 1..Len(log) :
                     (log[j].op = "row" /\ ~IsReal(log[j].id)) => i < j
        /\ pc \in {"setup", "ready"} =>
             \A id \in Rows :
                 /\ Cardinality(LogAt("row", id)) = 1
                 /\ Cardinality(LogAt("col", id)) = 1

C9_Witness ==
    /\ pc = "pass3"
    /\ idx = 6
    /\ scale = 4
    /\ Len(shares) = 2
    /\ log[2] = [op |-> "row", id |-> 4, pass |-> 1]
    /\ log[3] = [op |-> "col", id |-> 0, pass |-> 2]
    /\ log[11] = [op |-> "row", id |-> 1, pass |-> 3]
    /\ Len(log) = 2 + 8 + 4

\* C10: the column pass leaves every cell of every real row as pass 1 left
\* it, and no call of the third pass changes any cell: the grid is final
\* when the column pass ends.
C10_GridFinalAfterColumns ==
    [][/\ pc = "pass2" =>
            \A r \in 0..(square.length - 1) :
                IsReal(r) => square'.rows[r + 1] = square.rows[r + 1]
       /\ pc = "pass3" => square'.rows = square.rows]_vars

C10_Witness ==
    /\ pc = "setup"
    /\ scale = 2
    /\ Len(shares) = 4
    /\ log[Len(log)] = [op |-> "row", id |-> 7, pass |-> 3]
    /\ \E c \in 0..7 : val_at(square, 7, c) # 0

\* the prover RsSquareProver::new gives for the inputs and the parameters
ReferenceProver ==
    [shares |-> shares,
     scale |-> scale,
     square |-> extend(RsSquareNew(ProverLines(shares, scale), scale)),
     max_degree |-> Len(shares) * scale,
     params |-> prover.params]

C6_RootsCoverGrid ==
    pc = "ready" =>
        LET side == Len(shares) * scale
            rl == row_leaves(prover)
            cl == col_leaves(prover)
            rc == [i \in 0..(side - 1) |-> commit_to_row(prover, i)]
            cc == [i \in 0..(side - 1) |-> commit_to_col(prover, i)]
        IN
        /\ prover.square.length = side
        /\ Len(prover.square.rows) = side
        /\ Len(rl) = side
        /\ Len(cl) = side
        /\ \A i \in 0..(side - 1) :
             /\ ~IsPanic(rc[i])
             /\ ~IsPanic(cc[i])
             /\ rl[i + 1] = Hash(<<"G1", rc[i].g1>>)
             /\ cl[i + 1] = Hash(<<"G1", cc[i].g1>>)
        /\ \A v \in returned.row : v = MerkleRoot(rl)
        /\ \A v \in returned.col : v = MerkleRoot(cl)
        /\ \A v \in returned.root : v = Hash(<<MerkleRoot(rl), MerkleRoot(cl)>>)

C6_Witness ==
    /\ pc = "ready"
    /\ Len(shares) = 2
    /\ scale = 4
    /\ Len(row_leaves(prover)) = 8
    /\ returned.row # {}
    /\ returned.col # {}
    /\ returned.root = {Hash(<<row_root(prover), col_root(prover)>>)}

\* C4: construction from invalid input fails and yields no grid.
\* RsLine::new fails unless the number of shares and the scale are powers
\* of two; RsSquare::new fails unless the number of data rows and the scale
\* are powers of two and every data row has length len(data_rows)*scale;
\* RsSquareProver::new gives a prover only for an n x n grid, n and scale
\* powers of two, and otherwise fails before any extension pass and before
\* the parameter setup.
C4_InvalidInputFails ==
    /\ pc # "new" =>
         \A i \in 1..Len(lines) :
             ~IsPanic(lines[i]) <=>
                 (is_power_of_two(Len(shares[i])) /\ is_power_of_two(scale))
    /\ pc \notin {"new", "panic"} =>
         /\ ~IsPanic(square)
         /\ is_power_of_two(Len(lines))
         /\ is_power_of_two(scale)
         /\ Len(lines) = Len(shares)
         /\ \A i \in 1..Len(lines) : length(lines[i]) = Len(lines) * scale
    /\ pc = "ready" =>
         /\ ~IsPanic(prover)
         /\ IsGrid(shares)
         /\ is_power_of_two(scale)
    /\ ~(IsGrid(shares) /\ is_power_of_two(scale)) =>
         /\ pc \in {"new", "panic"}
         /\ log = <<>>
         /\ prover = None
         /\ pc = "panic" => IsPanic(square)

\* two rows of lengths 2 and 1 at scale 2: both lines are built, and
\* RsSquare::new refuses them
C4_Witness ==
    /\ pc = "panic"
    /\ Len(shares) = 2
    /\ Len(shares[1]) = 2
    /\ Len(shares[2]) = 1
    /\ scale = 2
    /\ Len(lines) = 2
    /\ ~IsPanic(lines[2])
    /\ square = Panic("Data rows do not form a square")
    /\ log = <<>>

\* three rows of three shares: RsLine::new refuses the first row
C4_WitnessLine ==
    /\ pc = "panic"
    /\ Len(shares) = 3
    /\ Len(shares[1]) = 3
    /\ scale = 1
    /\ Len(lines) = 1
    /\ IsPanic(lines[1])

----------------------------------------------------------------------------
(* Specification SpecLine: RsLine::new(shares, scale), then extend() from   *)
(* the domain of order len(shares) to the domain of order len(shares)*scale *)
(* as in tests::basic_reed_solomon_line_extend.                             *)

MaxExhaustiveLine == 4   \* lines of <= MaxExhaustiveLine shares are enumerated in full

\* longer lines: multiples of 0, 1, 2, ... with one share moved
FamilyLines(k) ==
    {[i \in 1..k |-> (a * (i - 1) + (IF i = j THEN e ELSE 0)) % P] :
     a \in 1..(MaxVal + 1), e \in 0..MaxVal, j \in {1, 3}}

LineInputs ==
    UNION {IF k <= MaxExhaustiveLine THEN [1..k -> 0..MaxVal] ELSE FamilyLines(k) :
           k \in 0..MaxRows}
    \cup {<<1, 2>>}

InitLine ==
    /\ pc = "line_new"
    /\ shares \in LineInputs
    /\ scale \in 0..MaxScale
    /\ line = None
    /\ lines = <<>>
    /\ square = None
    /\ idx = 0
    /\ prover = None
    /\ log = <<>>
    /\ returned = NoReturns
    /\ sharesB = None
    /\ proverB = None

\* RsLine::new(&shares, scale)
LineNew ==
    /\ pc = "line_new"
    /\ line' = RsLineNew(shares, scale)
    /\ pc' = IF IsPanic(line') THEN "panic" ELSE "line_built"
    /\ UNCHANGED <<shares, scale, lines, square, idx, prover, log, returned,
                   sharesB, proverB>>

\* rs_line.extend(small_domain, large_domain) with the domains of order
\* len(shares) and len(shares)*scale
LineExtend ==
    /\ pc = "line_built"
    /\ DomainNew(Len(shares)) # None
    /\ DomainNew(Len(shares) * scale) # None
    /\ line' = RsLineExtend(line, DomainNew(Len(shares)),
                            DomainNew(Len(shares) * scale))
    /\ pc' = "line_extended"
    /\ UNCHANGED <<shares, scale, lines, square, idx, prover, log, returned,
                   sharesB, proverB>>

NextLine ==
    \/ LineNew
    \/ LineExtend

SpecLine == InitLine /\ [][NextLine]_vars

\* C2: RsLine::new(shares, scale) followed by extend() from the domain of
\* order k to the domain of order k*scale gives a line of length k*scale
\* whose compressed_vals() is shares, element for element.
C2_LineRoundTrip ==
    pc = "line_extended" =>
        /\ is_power_of_two(Len(shares))
        /\ is_power_of_two(scale)
        /\ length(line) = Len(shares) * scale
        /\ compressed_vals(line) = shares

C2_Witness ==
    /\ pc = "line_extended"
    /\ shares = <<1, 2>>
    /\ scale = 2
    /\ length(line) = 4
    /\ compressed_vals(line) = <<1, 2>>
    /\ get_element_at(line, 1) # 0

----------------------------------------------------------------------------
(* Specification SpecPair: two provers built from grids that differ in one  *)
(* share, with the same scale and the same commitment parameters.           *)

\* the grids that differ from g in exactly one share
OneShareChanged(g) ==
    LET n == Len(g)
        cells == IF n <= MaxExhaustive THEN (1..n) \X (1..n)
                 ELSE {<<1, 1>>, <<2, 3>>, <<n, n>>}
    IN {[g EXCEPT ![cell[1]][cell[2]] = (@ + d) % P] :
        cell \in cells, d \in 1..MaxVal}

InitPair ==
    /\ pc = "pair_new"
    /\ \E n \in Sides : shares \in Grids(n)
    /\ scale \in {sc \in Scales : DomainNew(Len(shares) * sc) # None}
    /\ sharesB \in OneShareChanged(shares)
    /\ prover = None
    /\ proverB = None
    /\ line = None
    /\ lines = <<>>
    /\ square = None
    /\ idx = 0
    /\ log = <<>>
    /\ returned = NoReturns

\* RsSquareProver::new(&shares, scale)
BuildA ==
    /\ pc = "pair_new"
    /\ \E beta \in Betas : prover' = ProverNew(shares, scale, beta)
    /\ pc' = "pair_a"
    /\ UNCHANGED <<shares, scale, sharesB, proverB, line, lines, square, idx,
                   log, returned>>

\* RsSquareProver::new(&sharesB, scale), with the parameters of the first
BuildB ==
    /\ pc = "pair_a"
    /\ \E beta \in Betas :
         /\ KzgSetup(MaxDegree(sharesB, scale), beta) = prover.params
         /\ proverB' = ProverNew(sharesB, scale, beta)
    /\ pc' = "pair_ab"
    /\ UNCHANGED <<shares, scale, sharesB, prover, line, lines, square, idx,
                   log, returned>>

NextPair ==
    \/ BuildA
    \/ BuildB

SpecPair == InitPair /\ [][NextPair]_vars

\* the polynomials of the rows (axis "row") or columns of a prover's square
Polys(pr, axis) ==
    [i \in 0..(pr.max_degree - 1) |->
        IF axis = "row" THEN row_poly(pr.square, i) ELSE col_poly(pr.square, i)]

\* the commitments of a prover to the polynomials ps
Commitments(pr, ps) == [i \in DOMAIN ps |-> commit_to_poly(pr, ps[i])]

\* the indices at which f and g differ
Differing(f, g) == {i \in DOMAIN f : f[i] # g[i]}

\* the rows whose polynomials differ between the two provers
RowsDiffering == Differing(Polys(prover, "row"), Polys(proverB, "row"))

\* the columns whose polynomials differ between the two provers
ColsDiffering == Differing(Polys(prover, "col"), Polys(proverB, "col"))

\* the commitment does not collide on the polynomials compared
NoCollision ==
    /\ \A i \in RowsDiffering :
         commit_to_row(prover, i) # commit_to_row(proverB, i)
    /\ \A i \in ColsDiffering :
         commit_to_col(prover, i) # commit_to_col(proverB, i)

\* C7: for two provers with the same scale and parameters whose grids
\* differ in exactly one share, some row polynomial and some column
\* polynomial differ, and, the commitment not colliding on them, some row
\* commitment, some column commitment and the combined root differ.
C7_Sensitivity ==
    pc = "pair_ab" =>
        LET rowsA == Polys(prover, "row")
            rowsB == Polys(proverB, "row")
            colsA == Polys(prover, "col")
            colsB == Polys(proverB, "col")
            rd == Differing(rowsA, rowsB)
            cd == Differing(colsA, colsB)
            rcd == Differing(Commitments(prover, rowsA), Commitments(proverB, rowsB))
            ccd == Differing(Commitments(prover, colsA), Commitments(proverB, colsB))
            r0 == CHOOSE r \in 0..(Len(shares) - 1) : shares[r + 1] # sharesB[r + 1]
            c0 == CHOOSE c \in 0..(Len(shares) - 1) :
                      shares[r0 + 1][c + 1] # sharesB[r0 + 1][c + 1]
        IN
        /\ prover.params = proverB.params
        /\ prover.scale = proverB.scale
        /\ scale * r0 \in rd
        /\ scale * c0 \in cd
        /\ (rd \subseteq rcd /\ cd \subseteq ccd) =>
             /\ rcd # {}
             /\ ccd # {}
             /\ root(prover) # root(proverB)

C7_Witness ==
    /\ pc = "pair_ab"
    /\ Len(shares) = 2
    /\ scale = 2
    /\ shares[2][2] # sharesB[2][2]
    /\ NoCollision
    /\ commit_to_row(prover, 2) # commit_to_row(proverB, 2)
    /\ commit_to_col(prover, 2) # commit_to_col(proverB, 2)
    /\ root(prover) # root(proverB)

====
